---- MODULE Spec2Model ----
(***************************************************************************)
(* Model of src/index.ts: the WhatsApp gateway's connection lifecycle.    *)
(*                                                                         *)
(* The module-level variables sock, qrCode, isConnected and phoneNumber    *)
(* are the program's state.  Every `await` of the source is a point where  *)
(* the Node.js event loop may run another callback, so a handler that      *)
(* awaits is split into one action per segment between awaits.             *)
(*                                                                         *)
(* The protocol client (the Baileys socket) is an external library: the    *)
(* model treats it as an event source.  Every client this program has      *)
(* constructed keeps the listener registered at line 62 (the program never *)
(* removes it), and may deliver any `connection.update` to it.             *)
(*                                                                         *)
(* Strings are sequences of tokens; Null is JavaScript's null/undefined.   *)
(***************************************************************************)
EXTENDS Naturals, Sequences, FiniteSets

\* ---------------------------------------------------------------- bounds
MaxClients == 3      \* protocol clients ever constructed
MaxEvents == 2       \* connection.update events delivered
MaxCalls == 2        \* HTTP requests to /api/send-message and /api/logout

\* ------------------------------------------------------------ data types
Null == <<"null">>
NoSock == 0
Clients == 1..MaxClients

\* DisconnectReason.loggedOut of the protocol library
loggedOut == 401
\* other status codes a close can carry: none (lastDisconnect undefined),
\* restartRequired
OtherReasons == {0, 515}
Reasons == {loggedOut} \cup OtherReasons

Domain == <<"@", "s.whatsapp.net">>
QRPayloads == {<<"q", "1">>}
UserIds == {<<"5", "1", ":", "7">> \o Domain, <<"5", "2">> \o Domain}
Phones == {<<>>, <<"5", "1">>, <<"5", "1">> \o Domain}
Messages == {<<>>, <<"h", "i">>}

\* the shared secret when one is configured, and what a peer may put in the
\* Authorization header: nothing, the right token, a wrong token
Key == <<"k", "1">>
WrongKey == <<"k", "2">>
Keys == {<<>>, Key}
Bearer(k) == <<"Bearer", " ">> \o k
Headers == {Null, Bearer(Key), Bearer(WrongKey)}
\* the requests of the other claims carry no header and meet no secret
NoHeaders == {Null}

\* QRCode.toDataURL(qr)
toDataURL(qr) == <<"data:image/png;base64,">> \o qr

RECURSIVE IndexOf(_, _, _)
\* index of the first occurrence of token t in s at or after i, 0 if none
IndexOf(s, t, i) ==
  IF i > Len(s) THEN 0
  ELSE IF s[i] = t THEN i
  ELSE IndexOf(s, t, i + 1)

\* s.includes(t)
Includes(s, t) == IndexOf(s, t, 1) # 0

\* s.split(t)[0]
SplitFirst(s, t) ==
  IF Includes(s, t) THEN SubSeq(s, 1, IndexOf(s, t, 1) - 1) ELSE s

\* JavaScript truthiness of an optional string
Truthy(s) == s # Null /\ s # <<>>

\* a policy that retries only after a restart request
ReconnectOnRestartOnly(reason) == reason = 515

\* a policy that retries after every close
ReconnectAlways(reason) == TRUE

\* (lastDisconnect?.error as Boom)?.output?.statusCode !== DisconnectReason.loggedOut
ShouldReconnect(reason) == reason # loggedOut

\* the updates a client delivers: a QR payload, an open, or a close
QrUpdate(p) == [qr |-> p, connection |-> "undefined", reason |-> 0]
OpenUpdate == [qr |-> Null, connection |-> "open", reason |-> 0]
CloseUpdate(r) == [qr |-> Null, connection |-> "close", reason |-> r]
Updates ==
  {QrUpdate(p) : p \in QRPayloads} \cup {OpenUpdate}
    \cup {CloseUpdate(r) : r \in Reasons}

\* ----------------------------------------------------------------- state
VARIABLES
  apiKey,       \* API_KEY, <<>> when none is configured
  sock,         \* the current client handle, NoSock when null
  qrCode,       \* the rendered QR, or Null
  isConnected,
  phoneNumber,  \* the connected account, or Null
  authFolder,   \* whether AUTH_FOLDER exists on disk
  timers,       \* pending setTimeout(connectToWhatsApp, 5000) callbacks
  connecting,   \* connectToWhatsApp calls suspended at useMultiFileAuthState
  nClients,     \* clients constructed so far by makeWASocket
  failed,       \* connectToWhatsApp calls whose promise rejected
  crashed,      \* the process was ended by an unhandled rejection
  user,         \* user[c]: the `user` field of client c, Null when undefined
  rendering,    \* update handlers suspended at QRCode.toDataURL
  nEvents,      \* updates delivered so far
  last,         \* the update whose handler completed last, and its client
  closes,       \* close updates handled so far
  terminal,     \* close updates handled so far that carried loggedOut
  ended,        \* the clients that were closed (a close of theirs was
                \* handled) or logged out (their logout command resolved)
  lo,           \* the POST /api/logout request in progress or answered last
  snd,          \* the POST /api/send-message request in progress or answered last
  nCalls,       \* requests received so far
  row,          \* the logout requests answered back to back, nothing in between
  loDuringRetry,\* a logout was answered 200 while a retry timer was pending
  gate          \* the header of the send-message or logout request received
                \* last, and whether authenticate called next()

coord == <<sock, qrCode, isConnected, phoneNumber, authFolder>>
life == <<timers, connecting, nClients, failed, crashed>>
events == <<user, rendering, nEvents, last, closes, terminal>>
reqs == <<lo, snd, nCalls, row, loDuringRetry, gate>>
vars == <<apiKey, coord, life, events, ended, reqs>>

NoUpdate == [client |-> NoSock, update |-> QrUpdate(Null)]
NoLogout == [pc |-> "idle", client |-> NoSock, cmd |-> "none", res |-> 0]
NoCheck == [ok |-> FALSE, result |-> <<>>]
NoSend ==
  [pc |-> "idle", phone |-> <<>>, message |-> <<>>, conn |-> FALSE,
   jid |-> Null, client |-> NoSock, checked |-> 0, check |-> NoCheck,
   sent |-> <<>>, sendDone |-> FALSE, res |-> 0]
NoRow == [n |-> 0, ok |-> TRUE, clean |-> FALSE]
NoGate == [header |-> Null, passed |-> TRUE]

\* the process is alive
Running == ~crashed

\* a step that is no part of a logout request: it ends a run of logouts
Other ==
  /\ row' = NoRow
  /\ UNCHANGED <<apiKey, lo, snd, nCalls, loDuringRetry, gate>>

\* a wrong token that would pass only its presence being tested
AuthorizedIfPresent(header) == apiKey = <<>> \/ header # Null

\* authenticate: next() is called when no secret is configured or the
\* header is exactly `Bearer ${API_KEY}`
Authorized(header) == apiKey = <<>> \/ header = Bearer(apiKey)

\* authenticate answered 401: the route's handler does not run
Rejected(header) ==
  /\ gate' = [header |-> header, passed |-> FALSE]
  /\ row' = NoRow
  /\ UNCHANGED <<apiKey, coord, life, events, ended, lo, snd, loDuringRetry>>

\* authenticate called next()
Passed(header) == gate' = [header |-> header, passed |-> TRUE]

Boot ==
  /\ sock = NoSock
  /\ qrCode = Null
  /\ isConnected = FALSE
  /\ phoneNumber = Null
  /\ authFolder = TRUE
  /\ timers = 0
  /\ connecting = 1
  /\ nClients = 0
  /\ failed = 0
  /\ crashed = FALSE
  /\ user = [c \in Clients |-> Null]
  /\ rendering = <<>>
  /\ nEvents = 0
  /\ last = NoUpdate
  /\ closes = 0
  /\ terminal = 0
  /\ ended = {}
  /\ lo = NoLogout
  /\ snd = NoSend
  /\ nCalls = 0
  /\ row = NoRow
  /\ loDuringRetry = FALSE
  /\ gate = NoGate

\* API_KEY unset: process.env.API_KEY || ''
Init == apiKey = <<>> /\ Boot

\* API_KEY unset or set
AuthInit == apiKey \in Keys /\ Boot

\* --------------------------------------------------- connectToWhatsApp()
\* a retry timer fires: connectToWhatsApp runs up to its first await
TimerFire ==
  /\ Running
  /\ timers > 0
  /\ nClients + connecting < MaxClients
  /\ timers' = timers - 1
  /\ connecting' = connecting + 1
  /\ authFolder' = TRUE
  /\ UNCHANGED <<sock, qrCode, isConnected, phoneNumber, nClients, events>>
  /\ UNCHANGED <<failed, crashed, ended>>
  /\ Other

\* useMultiFileAuthState resolved: construct the client, register listeners
ConnectResume ==
  /\ Running
  /\ connecting > 0
  /\ connecting' = connecting - 1
  /\ nClients' = nClients + 1
  /\ sock' = nClients + 1
  /\ UNCHANGED <<qrCode, isConnected, phoneNumber, authFolder, timers, events>>
  /\ UNCHANGED <<failed, crashed, ended>>
  /\ Other

\* the credential load or the client's construction threw: the promise of
\* connectToWhatsApp rejects and no caller handles it (lines 88 and 282
\* drop the promise).  Node then either ends the process (crash) or only
\* warns, depending on its version and --unhandled-rejections.
ConnectFail(crash) ==
  /\ Running
  /\ connecting > 0
  /\ connecting' = connecting - 1
  /\ failed' = failed + 1
  /\ crashed' = crash
  /\ UNCHANGED <<coord, timers, nClients, events, ended>>
  /\ Other

\* a reset that forgets the phone number
ClearSnapshotKeepingPhone ==
  /\ isConnected' = FALSE
  /\ qrCode' = Null
  /\ UNCHANGED phoneNumber

\* isConnected = false; phoneNumber = null; qrCode = null
ClearSnapshot ==
  /\ isConnected' = FALSE
  /\ phoneNumber' = Null
  /\ qrCode' = Null

\* ------------------------------------------- connection.update listener
\* the part of the listener after the qr branch; q is qrCode at that point
HandleConnection(c, u, q) ==
  /\ IF u.connection = "close"
     THEN /\ ClearSnapshot
          /\ timers' = IF ShouldReconnect(u.reason) THEN timers + 1 ELSE timers
     ELSE IF u.connection = "open"
     THEN /\ isConnected' = TRUE
          /\ qrCode' = Null
          /\ phoneNumber' =
               IF sock # NoSock /\ Truthy(user'[sock])
               THEN SplitFirst(user'[sock], ":")
               ELSE phoneNumber
          /\ timers' = timers
     ELSE /\ qrCode' = q
          /\ UNCHANGED <<isConnected, phoneNumber, timers>>
  /\ last' = [client |-> c, update |-> u]
  /\ closes' = IF u.connection = "close" THEN closes + 1 ELSE closes
  /\ ended' = IF u.connection = "close" THEN ended \cup {c} ELSE ended
  /\ terminal' =
       IF u.connection = "close" /\ u.reason = loggedOut
       THEN terminal + 1 ELSE terminal
  /\ UNCHANGED <<sock, authFolder, connecting, nClients, failed, crashed>>

\* client c delivers update u; the library has set c.user before an open
Emit(c, u) ==
  /\ Running
  /\ c \in 1..nClients
  /\ nEvents < MaxEvents
  /\ nEvents' = nEvents + 1
  /\ Other
  /\ IF u.connection = "open" /\ user[c] = Null
     THEN \E id \in UserIds : user' = [user EXCEPT ![c] = id]
     ELSE user' = user
  /\ IF Truthy(u.qr)
     THEN /\ rendering' = Append(rendering, [client |-> c, update |-> u])
          /\ UNCHANGED <<coord, life, last, closes, terminal, ended>>
     ELSE /\ rendering' = rendering
          /\ HandleConnection(c, u, qrCode)

\* QRCode.toDataURL resolved for the i-th suspended handler
RenderDone(i) ==
  /\ Running
  /\ i \in 1..Len(rendering)
  /\ rendering' = SubSeq(rendering, 1, i - 1) \o SubSeq(rendering, i + 1, Len(rendering))
  /\ UNCHANGED <<user, nEvents>>
  /\ Other
  /\ HandleConnection(rendering[i].client, rendering[i].update,
                      toDataURL(rendering[i].update.qr))

\* ------------------------------------------------------ POST /api/logout
\* answering a logout request extends the run of back-to-back logouts
Answered(code) ==
  /\ row' = [n |-> row.n + 1, ok |-> row.ok /\ code = 200, clean |-> FALSE]
  /\ loDuringRetry' = (loDuringRetry \/ (code = 200 /\ timers > 0))

\* the request arrives: with a handle, issue sock.logout() and await it;
\* without one, answer 200 at once
LogoutStart(header) ==
  /\ Running
  /\ lo.pc # "await"
  /\ nCalls < MaxCalls
  /\ nCalls' = nCalls + 1
  /\ IF ~Authorized(header)
     THEN Rejected(header)
     ELSE /\ Passed(header)
          /\ IF sock # NoSock
             THEN /\ lo' = [pc |-> "await", client |-> sock, cmd |-> "none", res |-> 0]
                  /\ row' = [row EXCEPT !.clean = TRUE]
                  /\ UNCHANGED loDuringRetry
             ELSE /\ lo' = [pc |-> "done", client |-> NoSock, cmd |-> "none", res |-> 200]
                  /\ Answered(200)
          /\ UNCHANGED <<apiKey, coord, life, events, ended, snd>>

\* what every way of settling sock.logout() does to the run of logouts
LogoutAnswered(ok) ==
  /\ IF row.clean
     THEN Answered(lo'.res)
     ELSE /\ row' = NoRow
          /\ loDuringRetry' = (loDuringRetry \/ (ok /\ timers > 0))
  /\ UNCHANGED <<apiKey, life, events, snd, nCalls, gate>>

\* a handler that resets the state whether or not sock.logout() resolved
LogoutDoneResettingAlways(ok) ==
  /\ Running
  /\ lo.pc = "await"
  /\ sock' = NoSock
  /\ ClearSnapshot
  /\ authFolder' = FALSE
  /\ ended' = IF ok THEN ended \cup {lo.client} ELSE ended
  /\ lo' = [lo EXCEPT !.pc = "done",
                      !.cmd = IF ok THEN "resolved" ELSE "rejected",
                      !.res = IF ok THEN 200 ELSE 500]
  /\ LogoutAnswered(ok)

\* sock.logout() settled: resolved (ok) or rejected
LogoutDone(ok) ==
  /\ Running
  /\ lo.pc = "await"
  /\ IF ok
     THEN /\ sock' = NoSock
          /\ ClearSnapshot
          /\ authFolder' = FALSE
          /\ ended' = ended \cup {lo.client}
          /\ lo' = [lo EXCEPT !.pc = "done", !.cmd = "resolved", !.res = 200]
     ELSE /\ lo' = [lo EXCEPT !.pc = "done", !.cmd = "rejected", !.res = 500]
          /\ UNCHANGED <<coord, ended>>
  /\ LogoutAnswered(ok)

\* ------------------------------------------------ POST /api/send-message
\* const jid = phone.includes('@') ? phone : `${phone}@s.whatsapp.net`
Normalize(phone) == IF Includes(phone, "@") THEN phone ELSE phone \o Domain

\* the addresses the registration check may resolve a number to
ResolvedJids(phone) == {Normalize(phone), <<"5", "1", "9">> \o Domain}

\* what sock.onWhatsApp(phone) may settle with: a rejection, an empty list,
\* or one entry saying whether the number exists and under which address
CheckOutcomes(phone) ==
  {NoCheck, [ok |-> TRUE, result |-> <<>>],
   [ok |-> TRUE, result |-> <<[exists |-> FALSE, jid |-> Normalize(phone)]>>]}
    \cup {[ok |-> TRUE, result |-> <<[exists |-> TRUE, jid |-> j]>>] :
            j \in ResolvedJids(phone)}

\* !phone || !message
MissingField(phone, message) == ~Truthy(phone) \/ ~Truthy(message)

\* !isConnected || !sock
NotConnected == ~isConnected \/ sock = NoSock

\* a check that only looks for an entry, not at its exists flag
NotRegisteredIgnoringExists(result) == result = <<>>

\* !result?.exists, result being the first entry of the check's answer
NotRegistered(result) == result = <<>> \/ ~result[1].exists

\* the request arrives: validate, check the connection, issue the check
SendStart(header, phone, message) ==
  /\ Running
  /\ snd.pc \in {"idle", "done"}
  /\ nCalls < MaxCalls
  /\ nCalls' = nCalls + 1
  /\ IF ~Authorized(header)
     THEN Rejected(header)
     ELSE /\ Passed(header)
          /\ LET req == [NoSend EXCEPT !.phone = phone, !.message = message,
                                       !.conn = ~NotConnected]
             IN IF MissingField(phone, message)
                THEN snd' = [req EXCEPT !.pc = "done", !.res = 400]
                ELSE IF NotConnected
                THEN snd' = [req EXCEPT !.pc = "done", !.res = 503]
                ELSE snd' = [req EXCEPT !.pc = "check", !.jid = Normalize(phone),
                                        !.client = sock, !.checked = 1]
          /\ row' = NoRow
          /\ UNCHANGED <<apiKey, coord, life, events, ended, lo, loDuringRetry>>

\* sock.onWhatsApp settled with outcome o; on a registered number the send
\* goes to whatever sock is now, and throws when sock is null
SendCheckDone(o) ==
  /\ Running
  /\ snd.pc = "check"
  /\ o \in CheckOutcomes(snd.phone)
  /\ LET req == [snd EXCEPT !.check = o]
     IN IF ~o.ok
        THEN snd' = [req EXCEPT !.pc = "done", !.res = 500]
        ELSE IF NotRegistered(o.result)
        THEN snd' = [req EXCEPT !.pc = "done", !.res = 404]
        ELSE IF sock = NoSock
        THEN snd' = [req EXCEPT !.pc = "done", !.res = 500]
        ELSE snd' = [req EXCEPT !.pc = "send",
                       !.sent = Append(snd.sent,
                                  [client |-> sock, jid |-> o.result[1].jid])]
  /\ row' = NoRow
  /\ UNCHANGED <<apiKey, coord, life, events, ended, lo, nCalls, loDuringRetry, gate>>

\* a handler that marks the connection lost when the send is rejected
SendSendDoneDisconnecting(ok) ==
  /\ Running
  /\ snd.pc = "send"
  /\ snd' = [snd EXCEPT !.pc = "done", !.sendDone = ok,
                        !.res = IF ok THEN 200 ELSE 500]
  /\ row' = NoRow
  /\ isConnected' = (isConnected /\ ok)
  /\ UNCHANGED <<sock, qrCode, phoneNumber, authFolder>>
  /\ UNCHANGED <<apiKey, life, events, ended, lo, nCalls, loDuringRetry, gate>>

\* sock.sendMessage settled: resolved (ok) or rejected
SendSendDone(ok) ==
  /\ Running
  /\ snd.pc = "send"
  /\ snd' = [snd EXCEPT !.pc = "done", !.sendDone = ok,
                        !.res = IF ok THEN 200 ELSE 500]
  /\ row' = NoRow
  /\ UNCHANGED <<apiKey, coord, life, events, ended, lo, nCalls, loDuringRetry, gate>>

AllCheckOutcomes == UNION {CheckOutcomes(p) : p \in Phones}

\* ------------------------------------------------------ GET /api/status
Status ==
  [connected |-> isConnected, phone |-> phoneNumber, hasQR |-> Truthy(qrCode)]

IdleStatus == [connected |-> FALSE, phone |-> Null, hasQR |-> FALSE]

\* --------------------------------------------------------- GET /api/qr
Qr ==
  IF isConnected THEN [kind |-> "connected", qr |-> Null]
  ELSE IF Truthy(qrCode) THEN [kind |-> "qr", qr |-> qrCode]
  ELSE [kind |-> "waiting", qr |-> Null]

\* the clients constructed and neither closed nor logged out
Live == (1..nClients) \ ended

\* the coordinator holds a live client that has not opened
Pairing == sock \in Live /\ ~isConnected

\* GET /api/status and GET /api/qr behind authenticate: a pure read
Unauthorized == [status |-> 401, error |-> "Unauthorized"]
StatusRoute(header) == IF Authorized(header) THEN Status ELSE Unauthorized
QrRoute(header) == IF Authorized(header) THEN Qr ELSE Unauthorized

\* a GET of /api/status or /api/qr arrives: it is answered StatusRoute(header)
\* or QrRoute(header) and assigns nothing
Get(header) ==
  /\ Running
  /\ {StatusRoute(header), QrRoute(header)} # {}
  /\ UNCHANGED vars

\* the request bodies of POST /api/send-message
Bodies == {[phone |-> p, message |-> m] : p \in Phones, m \in Messages}

\* the steps of the program when requests carry the headers of H and the
\* bodies of B, and clients deliver the updates of U
NextWith(H, B, U) ==
  \/ TimerFire
  \/ ConnectResume
  \/ \E crash \in BOOLEAN : ConnectFail(crash)
  \/ \E c \in Clients, u \in U : Emit(c, u)
  \/ \E i \in 1..MaxEvents : RenderDone(i)
  \/ \E h \in H : Get(h)
  \/ \E h \in H : LogoutStart(h)
  \/ \E ok \in BOOLEAN : LogoutDone(ok)
  \/ \E h \in H, b \in B : SendStart(h, b.phone, b.message)
  \/ \E o \in AllCheckOutcomes : SendCheckDone(o)
  \/ \E ok \in BOOLEAN : SendSendDone(ok)

Next == NextWith(NoHeaders, Bodies, Updates)

Spec == Init /\ [][Next]_vars

\* The event loop runs what is due inside the process: a timer that has
\* expired, and the continuation of a local promise (the credential load,
\* the QR rendering).  Nothing obliges the protocol client to answer a
\* command, a peer to send a request, or the client to deliver an update.
\* the same program with a secret configured or not and any header, on
\* one complete body and one update of each kind
AuthBodies == {[phone |-> <<"5", "1">>, message |-> <<"h", "i">>]}
AuthUpdates ==
  {QrUpdate(p) : p \in QRPayloads} \cup {OpenUpdate, CloseUpdate(515)}
AuthNext == NextWith(Headers, AuthBodies, AuthUpdates)
AuthSpec == AuthInit /\ [][AuthNext]_vars

FairSpec ==
  /\ Spec
  /\ WF_vars(TimerFire)
  /\ WF_vars(ConnectResume)
  /\ WF_vars(\E i \in 1..MaxEvents : RenderDone(i))

\* ----------------------------------------------------- steps, for claims
\* an update's handler ran to its end in this step
Handled == nEvents' - Len(rendering') = (nEvents - Len(rendering)) + 1
OpenStep == Handled /\ last'.update.connection = "open"
CloseStep == closes' = closes + 1
TerminalCloseStep == terminal' = terminal + 1
\* the close came from a client that a later connectToWhatsApp has replaced
StaleCloseStep == CloseStep /\ sock # NoSock /\ last'.client < sock

\* ----------------------------------------------------------------- C1
\* C1: as long as no close carried the logged-out reason, every close
\* handled has scheduled exactly one connectToWhatsApp: the starts that
\* have completed, failed, are running or are pending on a timer are the
\* first one plus one per close, so no close has left the coordinator
\* without a retry (it is never LoggedOut).
C1_OneRetryPerClose ==
  terminal = 0 => nClients + failed + connecting + timers = 1 + closes

\* two closes handled, none terminal, and the first one's retry has run
C1_Witness ==
  terminal = 0 /\ closes = 2 /\ nClients = 2 /\ timers = 1

\* ----------------------------------------------------------------- C2
\* C2: once a logout has been answered 200 while a retry timer was pending,
\* no further protocol client is constructed.
C2_LogoutCancelsRetry == [][loDuringRetry => nClients' = nClients]_vars

\* ----------------------------------------------------------------- C3
\* C3: in every reachable state, connected implies that no QR is pending.
C3_ConnectedHasNoQR == isConnected => qrCode = Null

\* ----------------------------------------------------------------- C4
\* C4: a close delivered by a client that is no longer the current handle
\* changes neither connected, phone nor QR, and schedules no retry.
C4_StaleCloseIgnored ==
  [][StaleCloseStep => UNCHANGED <<isConnected, phoneNumber, qrCode, timers>>]_vars

\* ----------------------------------------------------------------- C5
\* C5: a send-message request received while not connected is answered 503
\* whatever its body, and issues neither a registration check nor a send.
C5_NotConnectedIs503 ==
  (snd.pc = "done" /\ ~snd.conn)
    => (snd.res = 503 /\ snd.checked = 0 /\ snd.sent = <<>>)

\* ----------------------------------------------------------------- C6
\* C6: handling a close that carries the logged-out reason leaves the
\* snapshot idle and schedules nothing: no timer is added, no
\* connectToWhatsApp is started and no client is constructed by that step.
C6_TerminalCloseStops ==
  [][TerminalCloseStep =>
       /\ timers' = timers
       /\ connecting' = connecting
       /\ nClients' = nClients
       /\ Status' = IdleStatus]_vars

\* the only close handled was terminal and no start is pending or running
C6_Witness ==
  /\ terminal = 1 /\ closes = 1
  /\ last.update = CloseUpdate(loggedOut)
  /\ timers = 0 /\ connecting = 0
  /\ Status = IdleStatus

\* ----------------------------------------------------------------- C7
\* C7: after an open is handled, the status reports connected and the
\* identity of the client that opened; after a close is handled, the status
\* is idle.
C7_StatusFollowsEvents ==
  [][/\ OpenStep =>
          /\ Status'.connected
          /\ Status'.phone = SplitFirst(user'[last'.client], ":")
     /\ CloseStep => Status' = IdleStatus]_vars

\* ----------------------------------------------------------------- C8
\* C8: two logout requests answered back to back with 200 leave the
\* snapshot idle, and a logout answered with no handle reports success and
\* leaves the snapshot idle.
C8_LogoutIdempotent ==
  /\ (row.n >= 2 /\ row.ok) => Status = IdleStatus
  /\ (row.n >= 1 /\ lo.pc = "done" /\ lo.client = NoSock)
       => (lo.res = 200 /\ Status = IdleStatus)

\* ----------------------------------------------------------------- C9
\* C9: when the registration check answers with no entry, or with an entry
\* whose exists flag is false, the request is answered 404 and no send
\* command has been issued.
C9_UnregisteredIs404 ==
  (/\ snd.pc = "done"
   /\ snd.check.ok
   /\ (snd.check.result = <<>> \/ ~snd.check.result[1].exists))
    => (snd.res = 404 /\ snd.sent = <<>>)

\* a request answered 404 after the check returned an empty list
C9_Witness ==
  /\ snd.pc = "done" /\ snd.conn /\ snd.checked = 1
  /\ snd.check = [ok |-> TRUE, result |-> <<>>]
  /\ snd.res = 404 /\ snd.sent = <<>>

\* ---------------------------------------------------------------- C10
\* C10: when the registration check reports the number registered, the
\* answered request has issued exactly one send command, addressed to the
\* address the check returned, after one check, and it is answered 200 only
\* once that send has completed.
C10_OneSendToResolved ==
  (/\ snd.pc = "done"
   /\ snd.check.ok
   /\ snd.check.result # <<>>
   /\ snd.check.result[1].exists)
    => /\ snd.checked = 1
       /\ Len(snd.sent) = 1
       /\ snd.sent[1].jid = snd.check.result[1].jid
       /\ (snd.res = 200 => snd.sendDone)

\* ---------------------------------------------------------------- C11
\* C11: every send-message request that is waiting for the registration
\* check or for the send command is eventually answered, also when the
\* protocol client never settles the command.
C11_SendTerminates == (snd.pc \in {"check", "send"}) ~> (snd.pc = "done")

\* ---------------------------------------------------------------- C12
\* C12: the process is never ended by a failed send or a failed reconnect:
\* a rejected send command is answered 500, and once a close has been
\* handled (so that every later connectToWhatsApp is a scheduled retry) a
\* connectToWhatsApp that throws leaves the process alive.
C12_NeverCrashes ==
  /\ closes > 0 => ~crashed
  /\ (snd.pc = "done" /\ snd.sent # <<>> /\ ~snd.sendDone) => snd.res = 500

\* ---------------------------------------------------------------- C13
\* C13: GET /api/qr answers with a QR payload only while pairing: the
\* current handle is a live client and the snapshot is not connected.
C13_QrOnlyWhilePairing == Qr.kind = "qr" => Pairing

\* ---------------------------------------------------------------- C14
\* C14: with a secret configured, a request whose Authorization header is
\* not exactly "Bearer <secret>" is answered 401 on every protected route,
\* and it changes neither the snapshot, the handle, the credentials, the
\* scheduled work nor the commands issued to the client; every other
\* request, and every request when no secret is configured, passes.
C14_AuthGate ==
  [][/\ \A h \in Headers :
          IF apiKey # <<>> /\ h # Bearer(apiKey)
          THEN StatusRoute(h) = Unauthorized /\ QrRoute(h) = Unauthorized
          ELSE StatusRoute(h) = Status /\ QrRoute(h) = Qr
     /\ nCalls' = nCalls + 1 =>
          IF apiKey # <<>> /\ gate'.header # Bearer(apiKey)
          THEN /\ ~gate'.passed
               /\ UNCHANGED <<coord, life, events, ended, lo, snd>>
          ELSE gate'.passed]_vars

\* a request with a wrong token was turned away while connected
C14_Witness ==
  /\ apiKey = Key
  /\ gate = [header |-> Bearer(WrongKey), passed |-> FALSE]
  /\ nCalls > 0
  /\ isConnected
  /\ lo = NoLogout /\ snd = NoSend

\* ---------------------------------------------------------------- C15
\* C15: at most one client that was constructed is neither closed nor
\* logged out.
C15_OneLiveClient == Cardinality(Live) <= 1

\* ---------------------------------------------------------------- C16
\* C16: handling a close of the current handle leaves the coordinator with
\* no handle, and a logout request never issues its logout command to a
\* client that was closed.
C16_CloseDiscardsHandle ==
  [][/\ (CloseStep /\ last'.client = sock) => sock' = NoSock
     /\ (lo.pc # "await" /\ lo'.pc = "await") => lo'.client \notin ended]_vars

\* ---------------------------------------------------------------- C17
\* C17: whenever the snapshot is not connected, its phone is absent.
C17_PhoneOnlyWhileConnected == ~isConnected => phoneNumber = Null

\* a client opened with an account and its close has been handled since
C17_Witness ==
  /\ ~isConnected /\ phoneNumber = Null
  /\ last.update.connection = "close"
  /\ last.client = sock
  /\ Truthy(user[sock])

\* ---------------------------------------------------------------- C18
\* C18: whenever the snapshot is connected, the coordinator holds a handle.
C18_ConnectedHasHandle == isConnected => sock # NoSock

\* ---------------------------------------------------------------- C19
\* C19: when sock.logout() is rejected the request is answered 500 and the
\* handle, the snapshot and the credentials stay as they were; the
\* credentials are erased only by the step in which sock.logout() resolved.
C19_FailedLogoutChangesNothing ==
  [][/\ (lo.pc = "await" /\ lo'.pc = "done" /\ lo'.cmd = "rejected")
          => (lo'.res = 500 /\ UNCHANGED coord)
     /\ (authFolder /\ ~authFolder')
          => (lo.pc = "await" /\ lo'.pc = "done" /\ lo'.cmd = "resolved")]_vars

\* a rejected logout answered 500 with the session untouched
C19_Witness ==
  /\ lo.pc = "done" /\ lo.cmd = "rejected" /\ lo.res = 500
  /\ sock = lo.client /\ sock # NoSock
  /\ isConnected /\ phoneNumber # Null
  /\ authFolder

\* ---------------------------------------------------------------- C20
\* C20: no step of a send-message request changes the handle, the snapshot,
\* the credentials, the retry timers or the starts in progress.
C20_SendChangesNothing ==
  [][snd' # snd =>
       UNCHANGED <<sock, isConnected, phoneNumber, qrCode, authFolder,
                   timers, connecting, nClients>>]_vars

\* a send command was rejected, answered 500, and the snapshot is connected
C20_Witness ==
  /\ snd.pc = "done" /\ snd.res = 500
  /\ snd.sent # <<>> /\ ~snd.sendDone
  /\ isConnected /\ sock # NoSock
====
